---- MODULE Spec2Model ----
(***************************************************************************)
(* Token-range partitioning of pkg/bloomutils/ring.go.                     *)
(*                                                                         *)
(* The caller owns one ring snapshot `instances` (a Go slice of            *)
(* ring.InstanceDesc, each with an Id and a Tokens slice).  The exported   *)
(* functions GetInstanceWithTokenRange, GetInstancesWithTokenRanges and    *)
(* NewInstanceSortMergeIterator are called on it; slices are passed by     *)
(* reference, so what a function does to the elements of `instances` or of *)
(* an instance's Tokens is visible to the caller afterwards.               *)
(*                                                                         *)
(* The keyspaces are scaled down: MaxUint32 and MaxUint64 stand for        *)
(* math.MaxUint32 and math.MaxUint64, and uint32/uint64 arithmetic is      *)
(* arithmetic modulo MaxUint32 + 1 and MaxUint64 + 1.                      *)
(***************************************************************************)
EXTENDS Integers, Sequences, FiniteSets, TLC

\* ---- bounds ------------------------------------------------------------
MaxInstances == 2
MaxRingTokens == 3
MaxUint32 == 2
MaxUint64 == 10

\* ---- state -------------------------------------------------------------
VARIABLES
  instances,   \* the caller's snapshot: Seq of [Id, Tokens]
  heapTie,     \* how the heap iterator orders equal tokens of two instances
  singleRes,   \* id -> what GetInstanceWithTokenRange(id, instances) returned
  multiRes,    \* id -> what GetInstancesWithTokenRanges(id, instances) returned
  it,          \* the iterator made by NewInstanceSortMergeIterator
  emitted      \* the values it.At() had after each successful it.Next()

vars == <<instances, heapTie, singleRes, multiRes, it, emitted>>

\* Instance ids are only ever compared for equality (and against ""), so
\* the instance at position k of the initial snapshot is named InstanceIds[k].
InstanceIds == <<"a", "b", "c", "d", "e">>

\* ids a caller asks for: those of a full snapshot and one that is never present
CallIds == {InstanceIds[k] : k \in 1..(MaxInstances + 1)}

\* ---- integer conversions -------------------------------------------------
Uint32(x) == x % (MaxUint32 + 1)

Uint64(x) == x % (MaxUint64 + 1)

\* ---- InstanceWithTokenRange ----------------------------------------------
Cmp(i, token) ==
  IF token < i.MinToken THEN "Before"
  ELSE IF token > i.MaxToken THEN "After"
  ELSE "Overlap"

Contains(rs, token) == \E j \in DOMAIN rs : Cmp(rs[j], token) = "Overlap"

\* v1.FingerprintBounds: NewBounds and its position test
NewBounds(min, max) == [Min |-> min, Max |-> max]

BoundsCmp(b, fp) ==
  IF fp < b.Min THEN "Before"
  ELSE IF fp > b.Max THEN "After"
  ELSE "Overlap"

\* the zero values of the Go types
ZeroBounds == [Min |-> 0, Max |-> 0]

ZeroInstanceDesc == [Id |-> "", Tokens |-> <<>>]

\* ---- sort.Slice ------------------------------------------------------------
\* less function of the sort in GetInstanceWithTokenRange
LessFirstToken_Desc(a, b) == a.Tokens[1] > b.Tokens[1]

LessFirstToken(a, b) == a.Tokens[1] < b.Tokens[1]

IsSortedInstances(s) ==
  \A i, j \in DOMAIN s : i < j => ~LessFirstToken(s[j], s[i])

\* sort.Slice is not stable: any ordering of equal elements may come out,
\* but a slice that is already in order is left as it is.
SortSliceInstances(s) ==
  IF IsSortedInstances(s) THEN {s}
  ELSE {t \in {[k \in DOMAIN s |-> s[p[k]]] : p \in Permutations(DOMAIN s)} :
          IsSortedInstances(t)}

\* sort.Slice on a []uint32 with <: insertion of each token in turn
RECURSIVE InsertToken(_, _)
InsertToken(s, x) ==
  IF s = <<>> THEN <<x>>
  ELSE IF x < Head(s) THEN <<x>> \o s
  ELSE <<Head(s)>> \o InsertToken(Tail(s), x)

RECURSIVE SortTokens(_)
SortTokens(ts) ==
  IF ts = <<>> THEN <<>>
  ELSE InsertToken(SortTokens(Tail(ts)), Head(ts))

\* ---- GetInstanceWithTokenRange ---------------------------------------------
\* slices.IndexFunc with inst.Id == id; zero-based, -1 when absent
IndexFunc(s, id) ==
  IF \E k \in DOMAIN s : s[k].Id = id
  THEN (CHOOSE k \in DOMAIN s : s[k].Id = id /\ \A j \in 1..(k - 1) : s[j].Id # id) - 1
  ELSE -1

NotFound_OnlyWhenEmpty(idx, n) == idx = -1 /\ n = 0

NotFound(idx, n) == idx = -1

TokenRangeOf_NoExtend(idx, n) ==
  LET i == Uint64(idx)
      step == MaxUint64 \div n
  IN NewBounds(Uint64(step * i), Uint64(step * i + step + MaxUint64))

\* lines 63-74: the equal-width slot of ordinal idx among n instances
TokenRangeOf(idx, n) ==
  LET i == Uint64(idx)
      step == MaxUint64 \div n
      minToken == Uint64(step * i)
      maxToken == Uint64(step * i + step + MaxUint64)   \* ... + step - 1
  IN NewBounds(minToken, IF i = n - 1 THEN MaxUint64 ELSE maxToken)

SingleResult(sorted, id) ==
  LET idx == IndexFunc(sorted, id)
      n == Len(sorted)
  IN IF NotFound(idx, n)
     THEN [bounds |-> ZeroBounds, err |-> "ErrInstanceNotFound"]
     ELSE [bounds |-> TokenRangeOf(idx, n), err |-> "nil"]

\* The less function reads Tokens[0] of every element it compares, so the
\* call only returns when each instance holds a token (the function's
\* documented assumption); with fewer than two instances nothing is compared.
GetInstanceWithTokenRange(id) ==
  /\ Len(instances) >= 2 => \A k \in DOMAIN instances : Len(instances[k].Tokens) >= 1
  /\ \E sorted \in SortSliceInstances(instances) :
       /\ instances' = sorted
       /\ singleRes' = (id :> SingleResult(sorted, id)) @@ singleRes
  /\ UNCHANGED <<heapTie, multiRes, it, emitted>>

\* ---- NewInstanceSortMergeIterator ------------------------------------------
\* lines 112-116: `inst` is a copy of the element, but inst.Tokens shares its
\* backing array with the caller's instance, so the caller's tokens are sorted
SortInstanceTokens(insts) ==
  [k \in DOMAIN insts |-> [insts[k] EXCEPT !.Tokens = SortTokens(@)]]

\* per-instance cursors of the slice iterators: pos[k] is the next unread token
InitialPos(insts) == [k \in DOMAIN insts |-> 1]

Live(insts, pos) == {k \in DOMAIN insts : pos[k] <= Len(insts[k].Tokens)}

Peek(insts, pos, k) == insts[k].Tokens[pos[k]]

\* less function of the heap iterator (lines 119-121)
HeapLess(iv1, iv2) == iv1.Value < iv2.Value

\* v1.HeapIterator: the source whose next value no other source is less than;
\* which of several sources with the same token comes first is fixed for a
\* snapshot but not specified
HeapTop(insts, pos, tie) ==
  LET live == Live(insts, pos)
      iv(k) == [Value |-> Peek(insts, pos, k), Index |-> k]
      tops == {k \in live : \A j \in live : ~HeapLess(iv(j), iv(k))}
  IN IF tie = "low"
     THEN CHOOSE k \in tops : \A j \in tops : k <= j
     ELSE CHOOSE k \in tops : \A j \in tops : k >= j

\* eq function of the deduping iterator (lines 127-129)
Eq(iv, iwtr) == FALSE

From_NoPlusOne(prevToken, iv, insts) ==
  [range |-> [Instance |-> insts[iv.Index],
              MinToken |-> Uint32(prevToken),
              MaxToken |-> iv.Value],
   prevToken |-> iv.Value]

\* from function of the deduping iterator (lines 130-138); prevToken is the
\* captured int, the result carries its new value
From(prevToken, iv, insts) ==
  [range |-> [Instance |-> insts[iv.Index],
              MinToken |-> Uint32(prevToken + 1),
              MaxToken |-> iv.Value],
   prevToken |-> iv.Value]

\* One Next() of the deduping iterator over the heap iterator: take the top
\* of the heap, map it with From, and merge the following values for as long
\* as Eq holds; the merge function panics.
DedupeNext(insts, pos, prevToken, tie) ==
  LET k == HeapTop(insts, pos, tie)
      iv == [Value |-> Peek(insts, pos, k), Index |-> k]
      f == From(prevToken, iv, insts)
      pos2 == [pos EXCEPT ![k] = @ + 1]
      more == Live(insts, pos2) # {}
      k2 == HeapTop(insts, pos2, tie)
      panics == more /\ Eq([Value |-> Peek(insts, pos2, k2), Index |-> k2], f.range)
  IN [at |-> f.range, pos |-> pos2, prevToken |-> f.prevToken, panics |-> panics]

NewInstanceSortMergeIterator ==
  /\ it.state = "none"
  /\ instances' = SortInstanceTokens(instances)
  /\ it' = [state |-> "open", pos |-> InitialPos(instances), prevToken |-> -1]
  /\ emitted' = <<>>
  /\ UNCHANGED <<heapTie, singleRes, multiRes>>

\* it.Next(): false once every source is exhausted
ItNext ==
  /\ it.state = "open"
  /\ IF Live(instances, it.pos) = {}
     THEN /\ it' = [it EXCEPT !.state = "done"]
          /\ UNCHANGED emitted
     ELSE LET d == DedupeNext(instances, it.pos, it.prevToken, heapTie)
          IN /\ it' = [state |-> IF d.panics THEN "panic" ELSE "open",
                       pos |-> d.pos, prevToken |-> d.prevToken]
             /\ emitted' = Append(emitted, d.at)
  /\ UNCHANGED <<instances, heapTie, singleRes, multiRes>>

\* ---- GetInstancesWithTokenRanges -------------------------------------------
\* lines 87-93: the body of the loop for one it.At()
LoopBody(st, at, id) ==
  [firstInst |-> IF st.firstInst.Id = "" THEN at.Instance ELSE st.firstInst,
   servers   |-> IF at.Instance.Id = id THEN Append(st.servers, at) ELSE st.servers,
   lastToken |-> at.MaxToken]

\* lines 86-94: for it.Next() { ... } over a fresh iterator
RECURSIVE Loop(_, _, _, _, _, _)
Loop(insts, pos, prevToken, tie, st, id) ==
  IF Live(insts, pos) = {} THEN [st |-> st, ok |-> TRUE]
  ELSE LET d == DedupeNext(insts, pos, prevToken, tie)
       IN IF d.panics THEN [st |-> st, ok |-> FALSE]
          ELSE Loop(insts, d.pos, d.prevToken, tie, LoopBody(st, d.at, id), id)

IsWrapOwner_AnyOwner(st, id) == Len(st.servers) > 0

\* line 97
IsWrapOwner(st, id) == Len(st.servers) > 0 /\ st.firstInst.Id = id

\* lines 95-104
AppendWrap(st, id) ==
  IF IsWrapOwner(st, id)
  THEN Append(st.servers, [MinToken |-> Uint32(st.lastToken + 1),
                           MaxToken |-> MaxUint32,
                           Instance |-> st.servers[1].Instance])
  ELSE st.servers

GetInstancesWithTokenRanges(id) ==
  LET sorted == SortInstanceTokens(instances)
      st0 == [firstInst |-> ZeroInstanceDesc, servers |-> <<>>, lastToken |-> 0]
      l == Loop(sorted, InitialPos(sorted), -1, heapTie, st0, id)
  IN /\ l.ok
     /\ instances' = sorted
     /\ multiRes' = (id :> AppendWrap(l.st, id)) @@ multiRes
     /\ UNCHANGED <<heapTie, singleRes, it, emitted>>

\* ---- initial states --------------------------------------------------------
\* the token slices an instance may hold: in any order, without repetition
\* within the instance (the ring assigns an instance distinct tokens)
TokenSeqs ==
  {ts \in UNION {[1..m -> 0..MaxUint32] : m \in 0..MaxRingTokens} :
     \A i, j \in DOMAIN ts : i # j => ts[i] # ts[j]}

\* number of tokens on the ring
RECURSIVE RingTokens(_)
RingTokens(insts) ==
  IF insts = <<>> THEN 0
  ELSE Len(Head(insts).Tokens) + RingTokens(Tail(insts))

\* the rings of n instances with at most MaxRingTokens tokens
RECURSIVE Rings(_)
Rings(n) ==
  IF n = 0 THEN {<<>>}
  ELSE UNION {{Append(r, [Id |-> InstanceIds[n], Tokens |-> ts]) :
                 ts \in {t \in TokenSeqs : Len(t) + RingTokens(r) <= MaxRingTokens}} :
              r \in Rings(n - 1)}

Snapshots == UNION {Rings(n) : n \in 0..MaxInstances}

\* two instances of the snapshot hold the same token
SharedToken(insts) ==
  \E k1, k2 \in DOMAIN insts :
    /\ k1 # k2
    /\ \E j1 \in DOMAIN insts[k1].Tokens, j2 \in DOMAIN insts[k2].Tokens :
         insts[k1].Tokens[j1] = insts[k2].Tokens[j2]

NoResult == [x \in {} |-> 0]

Init ==
  /\ instances \in Snapshots
  /\ heapTie \in (IF SharedToken(instances) THEN {"low", "high"} ELSE {"low"})
  /\ singleRes = NoResult
  /\ multiRes = NoResult
  /\ it = [state |-> "none", pos |-> <<>>, prevToken |-> -1]
  /\ emitted = <<>>

\* a ring in which every instance is configured with a single token, the case
\* GetInstanceWithTokenRange is written for
InitSingleToken ==
  /\ Init
  /\ \A k \in DOMAIN instances : Len(instances[k].Tokens) = 1

\* ---- specifications --------------------------------------------------------
SingleNext == \E id \in CallIds : GetInstanceWithTokenRange(id)

MultiNext == \E id \in CallIds : GetInstancesWithTokenRanges(id)

IterNext == NewInstanceSortMergeIterator \/ ItNext

Next == SingleNext \/ MultiNext

\* a caller using both partitioners on a ring of single-token instances
Spec == InitSingleToken /\ [][Next]_vars

\* a caller using only the single-token partitioner
SpecSingle == Init /\ [][SingleNext]_vars

\* a caller using only the multi-token partitioner
SpecMulti == Init /\ [][MultiNext]_vars

\* a caller making one full pass over the merge iterator
SpecIter == Init /\ [][IterNext]_vars

\* ---- properties --------------------------------------------------------------
PresentIds == {instances[k].Id : k \in DOMAIN instances}

\* the tokens held by id in the snapshot (none when id is absent)
TokensOf(id) ==
  IF id \in PresentIds
  THEN instances[CHOOSE k \in DOMAIN instances : instances[k].Id = id].Tokens
  ELSE <<>>

TokenSet(ts) == {ts[j] : j \in DOMAIN ts}

AllTokens == UNION {TokenSet(instances[k].Tokens) : k \in DOMAIN instances}

GlobalMin == CHOOSE t \in AllTokens : \A u \in AllTokens : t <= u

GlobalMax == CHOOSE t \in AllTokens : \A u \in AllTokens : t >= u

\* every instance holds a token, as GetInstanceWithTokenRange assumes
EachHoldsToken == \A k \in DOMAIN instances : Len(instances[k].Tokens) >= 1

AllSingleDone == PresentIds \subseteq DOMAIN singleRes

AllMultiDone == PresentIds \subseteq DOMAIN multiRes

\* the output for id carries a range beyond those of id's own tokens
HasWrap(id) == Len(multiRes[id]) > Len(TokensOf(id))

\* the ranges returned to the ids of the snapshot, as <<id, position>>
ReturnedRanges ==
  UNION {{<<id, j>> : j \in DOMAIN multiRes[id]} : id \in PresentIds}

\* C1: once GetInstancesWithTokenRanges has been called for every id of a
\* snapshot that holds a token, each token of [0, MaxUint32] lies in exactly
\* one of the returned ranges.
MultiTokenCoverage ==
  (AllTokens # {} /\ AllMultiDone) =>
    \A t \in 0..MaxUint32 :
      Cardinality({p \in ReturnedRanges : Cmp(multiRes[p[1]][p[2]], t) = "Overlap"}) = 1

SingleLeavesInstancesUnchanged ==
  [][SingleNext => instances' = instances]_vars

\* C4: a call of GetInstancesWithTokenRanges or NewInstanceSortMergeIterator
\* leaves the order of every instance's tokens as it was before the call.
MultiLeavesTokensUnchanged ==
  [][(MultiNext \/ NewInstanceSortMergeIterator) =>
       \A k \in DOMAIN instances : instances'[k].Tokens = instances[k].Tokens]_vars

\* C5: the wraparound range appended by GetInstancesWithTokenRanges never has
\* MinToken = 0.
WrapLowerBoundNeverZero ==
  \A id \in DOMAIN multiRes :
    HasWrap(id) => multiRes[id][Len(multiRes[id])].MinToken # 0

NotFoundAsymmetry ==
  /\ \A id \in DOMAIN singleRes :
       id \notin PresentIds =>
         /\ singleRes[id].err = "ErrInstanceNotFound"
         /\ singleRes[id].bounds = ZeroBounds
  /\ \A id \in DOMAIN multiRes :
       id \notin PresentIds => multiRes[id] = <<>>

NotFoundAsymmetryWitness ==
  /\ instances # <<>>
  /\ \E id \in DOMAIN singleRes \cap DOMAIN multiRes : id \notin PresentIds

\* C8: every range returned by GetInstancesWithTokenRanges has
\* MinToken <= MaxToken.
RangesMinLeMax ==
  \A id \in DOMAIN multiRes :
    \A j \in DOMAIN multiRes[id] : multiRes[id][j].MinToken <= multiRes[id][j].MaxToken

HeldCount(k, t) ==
  Cardinality({j \in DOMAIN instances[k].Tokens : instances[k].Tokens[j] = t})

EmittedCount(k, t) ==
  Cardinality({j \in DOMAIN emitted :
                 emitted[j].Instance.Id = instances[k].Id /\ emitted[j].MaxToken = t})

\* C10: the ranges the merge iterator emits come in ascending order of
\* MaxToken; the first starts at 0 and each later one at the successor (in
\* the circular keyspace) of the previous MaxToken; each carries an instance
\* of the snapshot that holds its MaxToken; no (token, owner) pair is emitted
\* more often than it is held, and when Next returns false each has been
\* emitted exactly as often as it is held.
MergeIteratorEmission ==
  /\ it.state # "panic"
  /\ \A j \in DOMAIN emitted :
       /\ emitted[j].MinToken =
            IF j = 1 THEN 0 ELSE Uint32(emitted[j - 1].MaxToken + 1)
       /\ j > 1 => emitted[j - 1].MaxToken <= emitted[j].MaxToken
       /\ \E k \in DOMAIN instances : emitted[j].Instance = instances[k]
  /\ it.state # "none" =>
       \A k \in DOMAIN instances : \A t \in 0..MaxUint32 :
         /\ EmittedCount(k, t) <= HeldCount(k, t)
         /\ it.state = "done" => EmittedCount(k, t) = HeldCount(k, t)

MergeIteratorEmissionWitness ==
  /\ it.state = "done"
  /\ Len(emitted) >= 3
  /\ \E j \in 2..Len(emitted) :
       /\ emitted[j].Instance.Id # emitted[j - 1].Instance.Id
       /\ emitted[j].MaxToken > emitted[j - 1].MaxToken

====
